---- MODULE Spec2Model ----
(***************************************************************************)
(* The streaming pipeline of tube-idea-generator: the POST handler of      *)
(* app/api/analyze/route.ts (one run per request) together with the        *)
(* collaborators it calls: lib/youtube.ts, lib/openai.ts, lib/news.ts and  *)
(* lib/reddit.ts.                                                          *)
(*                                                                         *)
(* The page of app/page.tsx that submits the request and reads the stream  *)
(* is the variable cl, with its read loop in rdr when the stream is read   *)
(* chunk by chunk.  The variable ut is a collaborator run on its own, on   *)
(* inputs and upstream answers of its own.                                 *)
(*                                                                         *)
(* The variable log is the history of one run in program order: the frames *)
(* the handler enqueued on the stream controller, the close of the         *)
(* controller, the collaborator calls and returns, and the upstream HTTP   *)
(* requests.  JavaScript runs each piece of the handler between two awaits *)
(* to completion, so each such piece is one action.                        *)
(***************************************************************************)
EXTENDS Integers, Sequences, FiniteSets, TLC

VARIABLES body, env, pc, log, yt, videos, topics, newsP, redditP, rd, cl,
          rdr, ut

vars ==
  <<body, env, pc, log, yt, videos, topics, newsP, redditP, rd, cl, rdr, ut>>

(***************************************************************************)
(* Bounds of the model: the longest playlist, topic list, article list,    *)
(* search listing and idea list an upstream answer carries.                *)
(***************************************************************************)
MaxVideos == 2

MaxTopics == 2

MaxArticles == 2

MaxChildren == 2

MaxIdeas == 6

(***************************************************************************)
(* Small helpers on sequences.                                             *)
(***************************************************************************)
Take(s, n) == SubSeq(s, 1, IF Len(s) < n THEN Len(s) ELSE n)

\* The k-th smallest element of a set of numbers, and the elements of s at
\* the indices in I, in order.
Nth(I, k) == CHOOSE i \in I : Cardinality({ j \in I : j <= i }) = k

AtIndices(s, I) == [k \in 1..Cardinality(I) |-> s[Nth(I, k)]]

\* The prefixes of a list: every length an upstream answer can have, up to
\* the length of s.
Prefixes(s) == { Take(s, k) : k \in 0..Len(s) }

(***************************************************************************)
(* The request body.  A url value carries its JavaScript type t; a string  *)
(* url is a sequence of tokens of the URL text.                            *)
(***************************************************************************)
IdTokens == {"UCabc", "name", "videos"}

UrlSamples ==
  { <<>>,
    <<"https://www.", "youtube.com/", "channel/", "UCabc">>,
    <<"youtube.com/", "user/", "name">>,
    <<"https://www.", "youtube.com/", "@", "name", "/", "videos">>,
    <<"https://www.", "youtube.com/", "c/", "channel/", "UCabc">>,
    <<"https://www.", "youtube.com/", "watch?v=", "UCabc">>,
    <<"https://www.", "youtube.com/", "channel/">>,
    <<"name">> }

UrlValues ==
  { [t |-> "undefined"], [t |-> "null"], [t |-> "object"],
    [t |-> "number", v |-> 0], [t |-> "number", v |-> 42],
    [t |-> "boolean", v |-> TRUE] }
  \cup { [t |-> "string", v |-> u] : u \in UrlSamples }

Bodies ==
  { [kind |-> "badjson"], [kind |-> "null"] }
  \cup { [kind |-> "object", url |-> u] : u \in UrlValues }

Envs == [YOUTUBE_API_KEY : BOOLEAN, NEWS_API_KEY : BOOLEAN]

(***************************************************************************)
(* JavaScript truthiness and typeof of a url value.                        *)
(***************************************************************************)
Falsy(u) ==
  \/ u.t \in {"undefined", "null"}
  \/ u.t = "number" /\ u.v = 0
  \/ u.t = "boolean" /\ u.v = FALSE
  \/ u.t = "string" /\ u.v = <<>>

TypeOf(u) == IF u.t = "null" THEN "object" ELSE u.t

(***************************************************************************)
(* The log: frames, close, calls, returns and upstream requests.           *)
(***************************************************************************)
sendSSE(l, type, data) ==
  Append(l, [k |-> "emit", f |-> [type |-> type, data |-> data]])

Close(l) == Append(l, [k |-> "close"])

\* A collaborator is called with the arguments args.
Call(l, name, args) ==
  Append(l, [k |-> "call", name |-> name, args |-> args])

\* A collaborator returns (ok) or throws an error with message err.
Ret(l, name, ok, err) ==
  Append(l, [k |-> "ret", name |-> name, ok |-> ok, err |-> err])

Http(l, api) == Append(l, [k |-> "http", api |-> api])

IsEmit(x) == x.k = "emit"

Frames(l) ==
  LET e == SelectSeq(l, IsEmit) IN [i \in 1..Len(e) |-> e[i].f]

Closed(l) == \E i \in 1..Len(l) : l[i].k = "close"

(***************************************************************************)
(* lib/youtube.ts                                                          *)
(***************************************************************************)
\* The longest run of characters of [a-zA-Z0-9_-] a token starts with.
IdPrefix(tok) ==
  CASE tok \in IdTokens -> tok
    [] tok = "https://www." -> "https"
    [] tok = "youtube.com/" -> "youtube"
    [] tok = "channel/" -> "channel"
    [] tok = "c/" -> "c"
    [] tok = "user/" -> "user"
    [] tok = "watch?v=" -> "watch"
    [] OTHER -> ""

\* What ([a-zA-Z0-9_-]+) captures at the start of s (greedy; "" = no match).
RECURSIVE Capture(_)
Capture(s) ==
  IF s = <<>> THEN ""
  ELSE IF Head(s) \in IdTokens THEN Head(s) \o Capture(Tail(s))
  ELSE IdPrefix(Head(s))

patterns ==
  << [prefix |-> "channel/", type |-> "id"],
     [prefix |-> "c/", type |-> "username"],
     [prefix |-> "user/", type |-> "username"],
     [prefix |-> "@", type |-> "handle"] >>

\* The positions where youtube\.com\/<prefix>([a-zA-Z0-9_-]+) matches.
MatchAt(url, prefix) ==
  { i \in 1..Len(url) :
      /\ url[i] = "youtube.com/"
      /\ i + 1 <= Len(url)
      /\ url[i + 1] = prefix
      /\ Capture(SubSeq(url, i + 2, Len(url))) # "" }

RECURSIVE TryPatterns(_, _)
TryPatterns(url, n) ==
  IF n > Len(patterns) THEN [found |-> FALSE]
  ELSE IF MatchAt(url, patterns[n].prefix) # {}
       THEN LET i == CHOOSE j \in MatchAt(url, patterns[n].prefix) :
                       \A m \in MatchAt(url, patterns[n].prefix) : j <= m
            IN [found |-> TRUE, type |-> patterns[n].type,
                value |-> Capture(SubSeq(url, i + 2, Len(url)))]
       ELSE TryPatterns(url, n + 1)

\* extractChannelIdentifier taking a url that matches no pattern as an id.
extractChannelIdentifierLenient(url) ==
  IF TryPatterns(url, 1).found THEN TryPatterns(url, 1)
  ELSE [found |-> TRUE, type |-> "id", value |-> Capture(url)]

extractChannelIdentifier(url) == TryPatterns(url, 1)

\* The message of a request that failed without an HTTP response.
NetErrors == {"Network Error", ""}

\* The i-th item of the uploads playlist; a title is its list of words.
VideoSample(i) ==
  [ id |-> "v" \o ToString(i),
    title |-> IF i % 2 = 1 THEN <<"React", "Hooks", "Guide">>
              ELSE <<"The", "AI", "Guide">> ]

\* fetchChannelVideos while it runs: the request it waits for (at), or how
\* it ended.
NoLookup == [at |-> "none", videos |-> <<>>, err |-> ""]

Waiting(req) == [at |-> req, videos |-> <<>>, err |-> ""]

Returned(vs) == [at |-> "returned", videos |-> vs, err |-> ""]

Threw(m) == [at |-> "threw", videos |-> <<>>, err |-> m]

Requests == {"forUsername", "forHandle", "search", "channels", "playlistItems"}

\* The answers of the YouTube Data API to a request.
YoutubeAnswers(req) ==
  IF req \in {"forUsername", "forHandle", "search"}
  THEN { [kind |-> k] : k \in {"found", "empty", "fail"} }
  ELSE IF req = "channels"
  THEN { [kind |-> "ok"], [kind |-> "empty"] }
       \cup { [kind |-> k, err |-> m] :
                k \in {"403", "404", "fail"}, m \in NetErrors }
  ELSE { [kind |-> "ok", items |-> l] : l \in Prefixes([i \in 1..MaxVideos |-> VideoSample(i)]) }
       \cup { [kind |-> k, err |-> m] :
                k \in {"403", "404", "fail"}, m \in NetErrors }

\* The catch block of fetchChannelVideos (lines 174-182), by the status of
\* the failure ("" when the error has no response) and its message.
RethrowMessage(status, m) ==
  IF status = "403" THEN "YouTube API quota exceeded or invalid API key"
  ELSE IF status = "404" THEN "Channel not found"
  ELSE "Failed to fetch videos: " \o m

\* fetchChannelVideos up to its first request (lines 117-141), called with
\* the url value u (url.match exists on strings only).
launchLookup(u, e) ==
  IF ~e.YOUTUBE_API_KEY THEN Threw("YOUTUBE_API_KEY is not set")
  ELSE IF u.t # "string" THEN Threw("url.match is not a function")
  ELSE LET identifier == extractChannelIdentifier(u.v)
       IN IF ~identifier.found THEN Threw("Invalid YouTube channel URL")
          ELSE IF identifier.type = "id" THEN Waiting("channels")
          ELSE IF identifier.type = "username" THEN Waiting("forUsername")
          ELSE Waiting("forHandle")

\* getChannelId (lines 36-112) and the rest of fetchChannelVideos
\* (lines 132-182) on the answer a to the request req.
lookupStep(req, a) ==
  CASE req = "forUsername" ->
         IF a.kind = "found" THEN Waiting("channels")
         ELSE Threw("Could not resolve channel ID from URL")
    [] req = "forHandle" ->
         IF a.kind = "found" THEN Waiting("channels") ELSE Waiting("search")
    [] req = "search" ->
         IF a.kind = "found" THEN Waiting("channels")
         ELSE Threw("Could not resolve channel ID from URL")
    [] req = "channels" ->
         IF a.kind = "ok" THEN Waiting("playlistItems")
         ELSE IF a.kind = "empty"
         THEN Threw(RethrowMessage("", "Channel not found"))
         ELSE IF a.kind = "fail" THEN Threw(RethrowMessage("", a.err))
         ELSE Threw(RethrowMessage(a.kind, a.err))
    [] req = "playlistItems" ->
         IF a.kind = "ok" THEN Returned(a.items)
         ELSE IF a.kind = "fail" THEN Threw(RethrowMessage("", a.err))
         ELSE Threw(RethrowMessage(a.kind, a.err))

\* The log after the lookup has moved to y: its next request, or its end.
logLookup(l, y) ==
  IF y.at = "threw" THEN Ret(l, "fetchChannelVideos", FALSE, y.err)
  ELSE IF y.at = "returned" THEN Ret(l, "fetchChannelVideos", TRUE, "")
  ELSE Http(l, y.at)

(***************************************************************************)
(* lib/openai.ts                                                           *)
(***************************************************************************)
\* The i-th topic and the i-th idea of a chat completion.
TopicSample(i) ==
  IF i = 1 THEN "Tech" ELSE IF i = 2 THEN "AI" ELSE "Topic " \o ToString(i)

IdeaSample(i) ==
  [ title |-> "Idea " \o ToString(i), thumbDesign |-> "Bold text",
    videoIdea |-> "Concept" ]

\* The answer of the chat completion: it fails, has no content, content
\* that is not JSON, the JSON null, or a JSON object or array.
TopicAnswers ==
  { [kind |-> k] : k \in {"error", "nocontent", "badjson", "null",
                           "notopics", "notarray"} }
  \cup { [kind |-> k, list |-> l] :
           k \in {"topics", "array"}, l \in Prefixes([i \in 1..MaxTopics |-> TopicSample(i)]) }

IdeaAnswers ==
  { [kind |-> k] : k \in {"error", "nocontent", "badjson", "null",
                           "noideas", "notarray"} }
  \cup { [kind |-> "ideas", list |-> l] : l \in Prefixes([i \in 1..MaxIdeas |-> IdeaSample(i)]) }

toLowerCase(w) ==
  CASE w = "React" -> "react"
    [] w = "Hooks" -> "hooks"
    [] w = "Guide" -> "guide"
    [] w = "The" -> "the"
    [] w = "AI" -> "ai"
    [] w = "Where" -> "where"
    [] w = "Docker" -> "docker"
    [] OTHER -> w

commonWords ==
  {"the", "a", "an", "and", "or", "but", "in", "on", "at", "to", "for", "of",
   "with", "by", "is", "are", "was", "were", "this", "that", "how", "what",
   "why", "when", "where"}

MinWordLen == 4

MaxKeywords == 8

MaxIdeasReturned == 5

\* [...new Set(s)]: the first occurrence of each element, in order.
Unique(s) ==
  AtIndices(s, { i \in 1..Len(s) : \A j \in 1..(i - 1) : s[j] # s[i] })

\* The words of all titles joined by ' ', in lower case.
RECURSIVE TitleWords(_)
TitleWords(vs) ==
  IF vs = <<>> THEN <<>>
  ELSE [i \in 1..Len(Head(vs).title) |-> toLowerCase(Head(vs).title[i])]
         \o TitleWords(Tail(vs))

IsKeyword(w) == Len(w) > MinWordLen /\ w \notin commonWords

\* keywordFallback without slice(0, 8).
keywordFallbackNoCap(vs) == Unique(SelectSeq(TitleWords(vs), IsKeyword))

keywordFallback(vs) ==
  Take(Unique(SelectSeq(TitleWords(vs), IsKeyword)), MaxKeywords)

analyzeTopics(vs, a) ==
  IF a.kind \in {"error", "nocontent", "badjson", "null"}
  THEN keywordFallback(vs)
  ELSE IF a.kind \in {"topics", "array"} THEN a.list
  ELSE <<>>

fallbackIdea(topic) ==
  [ title |-> "Latest Updates on " \o topic \o " - 2024",
    thumbDesign |-> "Bold text on gradient background with relevant icon, bright colors to stand out",
    videoIdea |-> "Create a comprehensive video covering the latest developments and trends in "
                    \o topic \o ", including recent news and community discussions." ]

\* generateVideoIdeas that returns an empty ideas array as it is.
generateVideoIdeasEmptyOk(ts, news, redditPosts, sampleTitles, a) ==
  IF a.kind = "ideas"
  THEN Take(a.list, MaxIdeasReturned)
  ELSE LET t == Take(ts, MaxIdeasReturned)
       IN [i \in 1..Len(t) |-> fallbackIdea(t[i])]

\* generateVideoIdeas without the two slice(0, 5).
generateVideoIdeasNoCap(ts, news, redditPosts, sampleTitles, a) ==
  IF a.kind = "ideas" /\ Len(a.list) > 0
  THEN a.list
  ELSE [i \in 1..Len(ts) |-> fallbackIdea(ts[i])]

generateVideoIdeas(ts, news, redditPosts, sampleTitles, a) ==
  IF a.kind = "ideas" /\ Len(a.list) > 0
  THEN Take(a.list, MaxIdeasReturned)
  ELSE LET t == Take(ts, MaxIdeasReturned)
       IN [i \in 1..Len(t) |-> fallbackIdea(t[i])]

(***************************************************************************)
(* lib/news.ts                                                             *)
(***************************************************************************)
\* The i-th upstream article; "" stands for a missing title or source name.
ArticleSample(i) ==
  [ title |-> IF i % 3 = 2 THEN "" ELSE "Headline " \o ToString(i),
    url |-> "https://n/" \o ToString(i),
    source |-> IF i % 3 = 0 THEN "" ELSE "BBC" ]

NewsAnswers ==
  { [kind |-> "fail"], [kind |-> "noarticles"] }
  \cup { [kind |-> "ok", articles |-> l] :
           l \in Prefixes([i \in 1..MaxArticles |-> ArticleSample(i)]) }

MaxNews == 5

HasTitleAndUrl(x) == x.title # "" /\ x.url # ""

toNewsArticle(x) ==
  [ title |-> x.title, url |-> x.url,
    source |-> IF x.source # "" THEN x.source ELSE "Unknown" ]

\* fetchRelevantNews once the key is known to be set.
newsFromAnswer(a) ==
  IF a.kind = "ok"
  THEN LET kept == Take(SelectSeq(a.articles, HasTitleAndUrl), MaxNews)
       IN [i \in 1..Len(kept) |-> toNewsArticle(kept[i])]
  ELSE <<>>

(***************************************************************************)
(* lib/reddit.ts                                                           *)
(***************************************************************************)
\* The i-th child of a search listing: the second repeats the permalink of
\* the first, every third is adult content.
ChildSample(i) ==
  [ hasData |-> TRUE,
    title |-> "Post " \o ToString(i),
    permalink |-> IF i = 2 THEN "/r/a/1" ELSE "/r/a/" \o ToString(i),
    subreddit |-> "a",
    over_18 |-> (i % 3 = 0) ]

RedditAnswers ==
  { [kind |-> k] : k \in {"403", "429", "nolisting", "throw"} }
  \cup { [kind |-> "listing", children |-> l] :
           l \in Prefixes([i \in 1..MaxChildren |-> ChildSample(i)]) }

endpoints ==
  << "https://www.reddit.com/search.json",
     "https://old.reddit.com/search.json" >>

MaxSearchTerms == 3

MaxPosts == 10

NotAdult(c) == c.hasData /\ ~c.over_18

toRedditPost(c) ==
  [ title |-> c.title, url |-> "https://www.reddit.com" \o c.permalink,
    subreddit |-> c.subreddit ]

postsOf(children) ==
  LET kept == SelectSeq(children, NotAdult)
  IN [i \in 1..Len(kept) |-> toRedditPost(kept[i])]

\* Array.from(new Map(posts.map(p => [p.url, p])).values()): one post per
\* url, at the place of the first and with the value of the last.
uniqueByUrl(ps) ==
  LET first == { i \in 1..Len(ps) : \A j \in 1..(i - 1) : ps[j].url # ps[i].url }
      last(i) == CHOOSE j \in 1..Len(ps) :
                   /\ ps[j].url = ps[i].url
                   /\ \A m \in (j + 1)..Len(ps) : ps[m].url # ps[i].url
      keys == AtIndices(ps, first)
  IN [k \in 1..Len(keys) |-> ps[last(Nth(first, k))]]

\* uniquePosts without the Map that keeps one post per url.
uniquePostsNoDedup(allPosts) == Take(allPosts, MaxPosts)

uniquePosts(allPosts) == Take(uniqueByUrl(allPosts), MaxPosts)

(***************************************************************************)
(* app/api/analyze/route.ts: the pieces of POST's start(controller)        *)
(* between two awaits.  Each gives the log after the piece has run and the *)
(* await the handler then waits at ("done" after a return).                *)
(***************************************************************************)
Progress(l, step, message) ==
  sendSSE(l, "progress", [step |-> step, message |-> message])

ProgressData(l, step, message, data) ==
  sendSSE(l, "progress", [step |-> step, message |-> message, data |-> data])

GenericMessage == "An error occurred while analyzing the channel"

\* catchMessage with the error's own message dropped.
catchMessageGeneric(m) == GenericMessage

\* error.message || '...'
catchMessage(m) == IF m # "" THEN m ELSE GenericMessage

\* catchBlock without controller.close().
catchBlockNoClose(l, m) ==
  [ log |-> sendSSE(l, "error", [message |-> catchMessage(m)]),
    pc |-> "done" ]

\* The catch block (lines 95-101).
catchBlock(l, m) ==
  [ log |-> Close(sendSSE(l, "error", [message |-> catchMessage(m)])),
    pc |-> "done" ]

\* urlRejected without the !url test.
urlRejectedNoEmpty(u) == TypeOf(u) # "string"

\* !url || typeof url !== 'string'
urlRejected(u) == Falsy(u) \/ TypeOf(u) # "string"

\* startBlock without the return after the validation error.
startBlockNoReturn(b) ==
  IF b.kind = "badjson"
  THEN catchBlock(<<>>, "Unexpected end of JSON input")
  ELSE IF b.kind = "null"
  THEN catchBlock(<<>>, "Cannot destructure property 'url' of null")
  ELSE LET l == IF urlRejected(b.url)
                THEN Close(sendSSE(<<>>, "error",
                       [message |-> "YouTube channel URL is required"]))
                ELSE <<>>
       IN [ log |-> Call(Progress(l, "fetching_videos",
                                  "Fetching YouTube videos..."),
                         "fetchChannelVideos", <<b.url>>),
            pc |-> "callVideos" ]

\* startBlock of a route that announces the step 'starting' first.
startBlockAnnounceStarting(b) ==
  IF b.kind = "badjson"
  THEN catchBlock(<<>>, "Unexpected end of JSON input")
  ELSE IF b.kind = "null"
  THEN catchBlock(<<>>, "Cannot destructure property 'url' of null")
  ELSE IF urlRejected(b.url)
  THEN [ log |-> Close(sendSSE(<<>>, "error",
                    [message |-> "YouTube channel URL is required"])),
         pc |-> "done" ]
  ELSE [ log |-> Call(Progress(Progress(<<>>, "starting",
                                        "Starting analysis..."),
                               "fetching_videos",
                               "Fetching YouTube videos..."),
                      "fetchChannelVideos", <<b.url>>),
         pc |-> "callVideos" ]

\* Lines 18-28: read the body, validate the url, announce and call the
\* video lookup ("callVideos": the call is entered, see Start).
startBlock(b) ==
  IF b.kind = "badjson"
  THEN catchBlock(<<>>, "Unexpected end of JSON input")
  ELSE IF b.kind = "null"
  THEN catchBlock(<<>>, "Cannot destructure property 'url' of null")
  ELSE IF urlRejected(b.url)
  THEN [ log |-> Close(sendSSE(<<>>, "error",
                    [message |-> "YouTube channel URL is required"])),
         pc |-> "done" ]
  ELSE [ log |-> Call(Progress(<<>>, "fetching_videos",
                                "Fetching YouTube videos..."),
                      "fetchChannelVideos", <<b.url>>),
         pc |-> "callVideos" ]

\* afterVideos without the test for an empty list.
afterVideosNoCheck(l, vs) ==
  [ log |-> Http(Call(Progress(
               ProgressData(l, "videos_fetched",
                  "Found " \o ToString(Len(vs)) \o " videos",
                  [videoCount |-> Len(vs)]),
               "analyzing_topics", "Analyzing topics with AI..."),
               "analyzeTopics", <<vs>>), "openai"),
    pc |-> "awaitTopics" ]

\* Lines 30-44: after the video lookup has returned vs.
afterVideos(l, vs) ==
  IF Len(vs) = 0
  THEN [ log |-> Close(sendSSE(l, "error",
                    [message |-> "No videos found for this channel"])),
         pc |-> "done" ]
  ELSE [ log |-> Http(Call(Progress(
                    ProgressData(l, "videos_fetched",
                       "Found " \o ToString(Len(vs)) \o " videos",
                       [videoCount |-> Len(vs)]),
                    "analyzing_topics", "Analyzing topics with AI..."),
                    "analyzeTopics", <<vs>>), "openai"),
         pc |-> "awaitTopics" ]

\* launchNews that sends the request whether or not the key is set.
launchNewsAlwaysRequest(l, ts, e) ==
  Http(Call(l, "fetchRelevantNews", <<ts>>), "newsapi")

\* The synchronous part of fetchRelevantNews (news.ts lines 14-30): without
\* a key it returns [] at once, with one it sends the request.
launchNews(l, ts, e) ==
  IF ~e.NEWS_API_KEY
  THEN Ret(Call(l, "fetchRelevantNews", <<ts>>),
           "fetchRelevantNews", TRUE, "")
  ELSE Http(Call(l, "fetchRelevantNews", <<ts>>), "newsapi")

searchTerms(ts) == Take(ts, MaxSearchTerms)

\* The synchronous part of searchRedditPosts (reddit.ts lines 16-44): with
\* no topic it returns [] at once, else it sends the first request (the
\* requests of this collaborator are counted in rd.n).
launchReddit(l, ts) ==
  IF searchTerms(ts) = <<>>
  THEN Ret(Call(l, "searchRedditPosts", <<ts>>),
           "searchRedditPosts", TRUE, "")
  ELSE Call(l, "searchRedditPosts", <<ts>>)

\* afterTopics with both announcements emitted before either launch.
afterTopicsAnnounceFirst(l, ts, e) ==
  LET l1 == ProgressData(l, "topics_analyzed",
               "Identified " \o ToString(Len(ts)) \o " main topics",
               [topics |-> ts])
      l2 == Progress(Progress(l1, "fetching_news",
                              "Fetching relevant news..."),
                     "searching_reddit", "Searching Reddit discussions...")
  IN [log |-> launchReddit(launchNews(l2, ts, e), ts), pc |-> "awaitBoth"]

\* afterTopics with the discussion search announced and launched before the
\* news search.
afterTopicsRedditFirst(l, ts, e) ==
  LET l1 == ProgressData(l, "topics_analyzed",
               "Identified " \o ToString(Len(ts)) \o " main topics",
               [topics |-> ts])
      l2 == launchReddit(Progress(l1, "searching_reddit",
                                  "Searching Reddit discussions..."), ts)
      l3 == launchNews(Progress(l2, "fetching_news",
                                "Fetching relevant news..."), ts, e)
  IN [log |-> l3, pc |-> "awaitBoth"]

\* Lines 46-61: after topic extraction has returned ts.
afterTopics(l, ts, e) ==
  LET l1 == ProgressData(l, "topics_analyzed",
               "Identified " \o ToString(Len(ts)) \o " main topics",
               [topics |-> ts])
      l2 == launchNews(Progress(l1, "fetching_news",
                                "Fetching relevant news..."), ts, e)
      l3 == launchReddit(Progress(l2, "searching_reddit",
                                  "Searching Reddit discussions..."), ts)
  IN [log |-> l3, pc |-> "awaitBoth"]

\* promiseAll fulfilled as soon as one of the two is (a race).
promiseAllAny(n, r) ==
  IF n.st = "rejected" THEN [st |-> "rejected", err |-> n.err]
  ELSE IF r.st = "rejected" THEN [st |-> "rejected", err |-> r.err]
  ELSE IF n.st = "fulfilled" \/ r.st = "fulfilled" THEN [st |-> "fulfilled"]
  ELSE [st |-> "pending"]

\* Promise.all([newsPromise, redditPromise]).
promiseAll(n, r) ==
  IF n.st = "rejected" THEN [st |-> "rejected", err |-> n.err]
  ELSE IF r.st = "rejected" THEN [st |-> "rejected", err |-> r.err]
  ELSE IF n.st = "fulfilled" /\ r.st = "fulfilled" THEN [st |-> "fulfilled"]
  ELSE [st |-> "pending"]

\* The titles of the first video only.
sampleTitlesFirstOnly(vs) == Take([i \in 1..Len(vs) |-> vs[i].title], 1)

\* Line 77: the titles of the fetched videos.
sampleTitles(vs) == [i \in 1..Len(vs) |-> vs[i].title]

\* afterBoth with idea generation called before generating_ideas is emitted.
afterBothCallBeforeEvent(l, vs, ts, news, redditPosts) ==
  LET l1 == ProgressData(l, "news_fetched",
               "Found " \o ToString(Len(news)) \o " news articles",
               [news |-> news])
      l2 == ProgressData(l1, "reddit_searched",
               "Found " \o ToString(Len(redditPosts)) \o " Reddit discussions",
               [redditPosts |-> redditPosts])
      l3 == Http(Call(l2, "generateVideoIdeas",
                      <<ts, news, redditPosts, sampleTitles(vs)>>),
                 "openai")
  IN [log |-> Progress(l3, "generating_ideas",
                       "Generating video ideas with AI..."),
      pc |-> "awaitIdeas"]

\* afterBoth with reddit_searched emitted before news_fetched.
afterBothRedditFirst(l, vs, ts, news, redditPosts) ==
  LET l1 == ProgressData(l, "reddit_searched",
               "Found " \o ToString(Len(redditPosts)) \o " Reddit discussions",
               [redditPosts |-> redditPosts])
      l2 == ProgressData(l1, "news_fetched",
               "Found " \o ToString(Len(news)) \o " news articles",
               [news |-> news])
      l3 == Progress(l2, "generating_ideas",
               "Generating video ideas with AI...")
  IN [log |-> Http(Call(l3, "generateVideoIdeas",
                        <<ts, news, redditPosts, sampleTitles(vs)>>),
                   "openai"),
      pc |-> "awaitIdeas"]

\* Lines 63-78: after both promises are fulfilled.
afterBoth(l, vs, ts, news, redditPosts) ==
  LET l1 == ProgressData(l, "news_fetched",
               "Found " \o ToString(Len(news)) \o " news articles",
               [news |-> news])
      l2 == ProgressData(l1, "reddit_searched",
               "Found " \o ToString(Len(redditPosts)) \o " Reddit discussions",
               [redditPosts |-> redditPosts])
      l3 == Progress(l2, "generating_ideas",
               "Generating video ideas with AI...")
  IN [log |-> Http(Call(l3, "generateVideoIdeas",
                        <<ts, news, redditPosts, sampleTitles(vs)>>),
                   "openai"),
      pc |-> "awaitIdeas"]

\* afterIdeas with redditPosts left out of the result.
afterIdeasNoReddit(l, ts, news, redditPosts, videoIdeas) ==
  LET l1 == ProgressData(l, "ideas_generated", "Generated 5 video ideas",
               [videoIdeas |-> videoIdeas])
      l2 == sendSSE(l1, "complete",
               [topics |-> ts, news |-> news, videoIdeas |-> videoIdeas])
  IN [log |-> Close(l2), pc |-> "done"]

\* afterIdeas that ends the run with an error when there is no idea.
afterIdeasErrorOnEmpty(l, ts, news, redditPosts, videoIdeas) ==
  IF videoIdeas = <<>>
  THEN [ log |-> Close(sendSSE(l, "error",
                    [message |-> "No video ideas generated"])),
         pc |-> "done" ]
  ELSE LET l1 == ProgressData(l, "ideas_generated",
                    "Generated 5 video ideas", [videoIdeas |-> videoIdeas])
           l2 == sendSSE(l1, "complete",
                    [topics |-> ts, news |-> news,
                     redditPosts |-> redditPosts, videoIdeas |-> videoIdeas])
       IN [log |-> Close(l2), pc |-> "done"]

\* Lines 80-94: after idea generation has returned videoIdeas.
afterIdeas(l, ts, news, redditPosts, videoIdeas) ==
  LET l1 == ProgressData(l, "ideas_generated", "Generated 5 video ideas",
               [videoIdeas |-> videoIdeas])
      l2 == sendSSE(l1, "complete",
               [topics |-> ts, news |-> news, redditPosts |-> redditPosts,
                videoIdeas |-> videoIdeas])
  IN [log |-> Close(l2), pc |-> "done"]

(***************************************************************************)
(* app/page.tsx: the state of the page (cl) and what handleSubmit does to  *)
(* it.  error and result are <<>> for null and <<x>> for the value x; rx   *)
(* is the number of frames of the stream the read loop has handled.        *)
(***************************************************************************)
stepOrder ==
  << "starting", "fetching_videos", "videos_fetched", "analyzing_topics",
     "topics_analyzed", "fetching_news", "searching_reddit", "news_fetched",
     "reddit_searched", "generating_ideas", "ideas_generated" >>

\* stepOrder.indexOf(step): from 0, -1 for a step that is not in the table.
indexOf(step) ==
  IF \E i \in 1..Len(stepOrder) : stepOrder[i] = step
  THEN (CHOOSE i \in 1..Len(stepOrder) : stepOrder[i] = step) - 1
  ELSE -1

\* sortByStepOrder that leaves the list in arrival order.
keepArrivalOrder(s) == s

\* updated.sort((a, b) => indexOf(a.step) - indexOf(b.step)): a stable sort.
sortByStepOrder(s) ==
  LET before(j, i) ==
        \/ indexOf(s[j].step) < indexOf(s[i].step)
        \/ indexOf(s[j].step) = indexOf(s[i].step) /\ j <= i
      place(i) == Cardinality({ j \in 1..Len(s) : before(j, i) })
  IN [k \in 1..Len(s) |-> s[CHOOSE i \in 1..Len(s) : place(i) = k]]

\* prev.findIndex(p => p.step === step): from 1 here, 0 when there is none.
findIndex(prev, step) ==
  IF \E i \in 1..Len(prev) : prev[i].step = step
  THEN CHOOSE i \in 1..Len(prev) :
         /\ prev[i].step = step
         /\ \A j \in 1..(i - 1) : prev[j].step # step
  ELSE 0

\* The entry made from the data d of a progress frame (lines 99-104).
newStep(d) ==
  [ step |-> d.step, message |-> d.message, completed |-> TRUE,
    data |-> IF "data" \in DOMAIN d THEN <<d.data>> ELSE <<>> ]

\* The updater given to setProgress (lines 96-123).
setProgress(prev, d) ==
  LET existing == findIndex(prev, d.step)
  IN IF existing > 0
     THEN sortByStepOrder([prev EXCEPT ![existing] = newStep(d)])
     ELSE sortByStepOrder(Append(prev, newStep(d)))

\* useState initial values (lines 27-31), before the form is submitted.
ClientIdle ==
  [ phase |-> "idle", loading |-> FALSE, error |-> <<>>, result |-> <<>>,
    progress |-> <<>>, rx |-> 0 ]

\* handleSubmit up to the read loop (lines 37-64); the response of the
\* route is always a 200 with a body stream.
submit(c) ==
  [ phase |-> "reading", loading |-> TRUE, error |-> <<>>, result |-> <<>>,
    progress |-> << [ step |-> "starting",
                      message |-> "Starting analysis...",
                      completed |-> FALSE, data |-> <<>> ] >>,
    rx |-> c.rx ]

\* The body of the loop over the lines of a chunk (lines 91-133) on a line
\* that carries the frame f: the Error thrown for an error frame (line 128)
\* is caught by the catch of the same try (line 130), which only logs it.
handleFrame(c, f) ==
  IF f.type = "progress"
  THEN [c EXCEPT !.progress = setProgress(c.progress, f.data),
                 !.rx = c.rx + 1]
  ELSE IF f.type = "complete"
  THEN [c EXCEPT !.result = <<f.data>>, !.loading = FALSE, !.rx = c.rx + 1]
  ELSE [c EXCEPT !.rx = c.rx + 1]

\* reader.read() gives done (line 84): the loop ends and handleSubmit
\* returns; nothing follows the loop inside the try.
streamDone(c) == [c EXCEPT !.phase = "returned"]

(***************************************************************************)
(* The state machine of one request.                                       *)
(***************************************************************************)
NoPromise == [st |-> "none", val |-> <<>>, err |-> ""]

Pending == [st |-> "pending", val |-> <<>>, err |-> ""]

Fulfilled(v) == [st |-> "fulfilled", val |-> v, err |-> ""]

Rejected(m) == [st |-> "rejected", val |-> <<>>, err |-> m]

\* The read loop of the page before it starts (page.tsx line 64): the
\* number of pieces of the stream it has read, its buffer, the frames it has
\* handled, and whether it has handled a line that came in two chunks.
NoReader == [pos |-> 0, buffer |-> <<>>, handled |-> <<>>, joined |-> FALSE]

\* No collaborator is run on its own.
NoUnit == [f |-> "none", st |-> "none"]

\* The locals of searchRedditPosts while it runs: the topic and endpoint of
\* the request in flight, allPosts, and the number of requests sent.
NoSearch == [i |-> 0, e |-> 0, allPosts |-> <<>>, n |-> 0]

Init ==
  /\ body \in Bodies
  /\ env \in Envs
  /\ pc = "start"
  /\ log = <<>>
  /\ yt = NoLookup
  /\ videos = <<>>
  /\ topics = <<>>
  /\ newsP = NoPromise
  /\ redditP = NoPromise
  /\ rd = NoSearch
  /\ cl = ClientIdle
  /\ rdr = NoReader
  /\ ut = NoUnit

\* start(controller) runs up to its first await on a collaborator: when it
\* calls the video lookup, the lookup runs up to its first request.
Start ==
  /\ pc = "start"
  /\ LET r == startBlock(body)
         y == launchLookup(body.url, env)
     IN IF r.pc = "callVideos"
        THEN log' = logLookup(r.log, y) /\ pc' = "awaitVideos" /\ yt' = y
        ELSE log' = r.log /\ pc' = r.pc /\ yt' = yt
  /\ UNCHANGED <<body, env, videos, topics, newsP, redditP, rd, cl, rdr, ut>>

\* A request of the video lookup is answered: the lookup sends its next
\* request, returns or throws.
LookupAnswer ==
  /\ yt.at \in Requests
  /\ \E a \in YoutubeAnswers(yt.at) :
       LET y == lookupStep(yt.at, a)
       IN yt' = y /\ log' = logLookup(log, y)
  /\ UNCHANGED <<body, env, pc, videos, topics, newsP, redditP, rd, cl, rdr, ut>>

\* The handler resumes after await fetchChannelVideos(url) (line 28).
VideosSettle ==
  /\ pc = "awaitVideos"
  /\ yt.at \in {"returned", "threw"}
  /\ LET r == IF yt.at = "returned" THEN afterVideos(log, yt.videos)
              ELSE catchBlock(log, yt.err)
     IN log' = r.log /\ pc' = r.pc
  /\ videos' = yt.videos
  /\ UNCHANGED <<body, env, yt, topics, newsP, redditP, rd, cl, rdr, ut>>

\* analyzeTopics returns; the handler announces and launches both searches.
TopicsSettle ==
  /\ pc = "awaitTopics"
  /\ \E a \in TopicAnswers :
       LET ts == analyzeTopics(videos, a)
           r == afterTopics(Ret(log, "analyzeTopics", TRUE, ""), ts, env)
       IN /\ log' = r.log
          /\ pc' = r.pc
          /\ topics' = ts
          /\ newsP' = IF env.NEWS_API_KEY THEN Pending ELSE Fulfilled(<<>>)
          /\ redditP' = IF searchTerms(ts) = <<>> THEN Fulfilled(<<>>)
                        ELSE Pending
          /\ rd' = IF searchTerms(ts) = <<>> THEN NoSearch
                   ELSE [i |-> 1, e |-> 1, allPosts |-> <<>>, n |-> 1]
  /\ UNCHANGED <<body, env, yt, videos, cl, rdr, ut>>

\* The handler's continuation after await Promise.all is ready to run; it
\* runs as a microtask, before any further upstream answer is handled.
ContinuationReady ==
  pc = "awaitBoth" /\ promiseAll(newsP, redditP).st # "pending"

\* The news request is answered and fetchRelevantNews returns.
NewsSettle ==
  /\ newsP.st = "pending"
  /\ ~ContinuationReady
  /\ \E a \in NewsAnswers : newsP' = Fulfilled(newsFromAnswer(a))
  /\ log' = Ret(log, "fetchRelevantNews", TRUE, "")
  /\ UNCHANGED <<body, env, pc, yt, videos, topics, redditP, rd, cl, rdr, ut>>

\* redditStep that goes on to the next endpoint after a listing too.
redditStepTryAll(r, a, nTerms) ==
  LET got == a.kind = "listing"
      nextTopic == r.e = Len(endpoints)
      i2 == IF nextTopic THEN r.i + 1 ELSE r.i
  IN [ i |-> i2,
       e |-> IF nextTopic THEN 1 ELSE r.e + 1,
       allPosts |-> IF got THEN r.allPosts \o postsOf(a.children)
                    ELSE r.allPosts,
       n |-> IF i2 > nTerms THEN r.n ELSE r.n + 1 ]

\* redditStep that gives up, with no post, once every endpoint has failed
\* for a topic.
redditStepAbortOnFailure(r, a, nTerms) ==
  LET got == a.kind = "listing"
      failed == ~got /\ r.e = Len(endpoints)
      nextTopic == got \/ r.e = Len(endpoints)
      i2 == IF failed THEN nTerms + 1
            ELSE IF nextTopic THEN r.i + 1 ELSE r.i
  IN [ i |-> i2,
       e |-> IF nextTopic THEN 1 ELSE r.e + 1,
       allPosts |-> IF failed THEN <<>>
                    ELSE IF got THEN r.allPosts \o postsOf(a.children)
                    ELSE r.allPosts,
       n |-> IF i2 > nTerms THEN r.n ELSE r.n + 1 ]

\* One iteration of the endpoint loop of searchRedditPosts on the answer a
\* (reddit.ts lines 33-105): the loop position and allPosts after it, and
\* the next request counted when there is one (nTerms topics are searched).
redditStep(r, a, nTerms) ==
  LET got == a.kind = "listing"
      nextTopic == got \/ r.e = Len(endpoints)
      i2 == IF nextTopic THEN r.i + 1 ELSE r.i
  IN [ i |-> i2,
       e |-> IF nextTopic THEN 1 ELSE r.e + 1,
       allPosts |-> IF got THEN r.allPosts \o postsOf(a.children)
                    ELSE r.allPosts,
       n |-> IF i2 > nTerms THEN r.n ELSE r.n + 1 ]

\* A search request is answered: searchRedditPosts sends the next request
\* or returns.
RedditAnswer ==
  /\ redditP.st = "pending"
  /\ ~ContinuationReady
  /\ \E a \in RedditAnswers :
       LET r == redditStep(rd, a, Len(searchTerms(topics)))
       IN IF r.i > Len(searchTerms(topics))
          THEN /\ redditP' = Fulfilled(uniquePosts(r.allPosts))
               /\ log' = Ret(log, "searchRedditPosts", TRUE, "")
               /\ rd' = NoSearch
          ELSE /\ redditP' = redditP
               /\ log' = log
               /\ rd' = r
  /\ UNCHANGED <<body, env, pc, yt, videos, topics, newsP, cl, rdr, ut>>

\* The handler resumes after await Promise.all (line 61).
Join ==
  /\ ContinuationReady
  /\ LET p == promiseAll(newsP, redditP)
         r == IF p.st = "fulfilled"
              THEN afterBoth(log, videos, topics, newsP.val, redditP.val)
              ELSE catchBlock(log, p.err)
     IN log' = r.log /\ pc' = r.pc
  /\ UNCHANGED <<body, env, yt, videos, topics, newsP, redditP, rd, cl,
                 rdr, ut>>

\* generateVideoIdeas returns; the handler completes.
IdeasSettle ==
  /\ pc = "awaitIdeas"
  /\ \E a \in IdeaAnswers :
       LET ideas == generateVideoIdeas(topics, newsP.val, redditP.val,
                                       sampleTitles(videos), a)
           r == afterIdeas(Ret(log, "generateVideoIdeas", TRUE, ""), topics,
                           newsP.val, redditP.val, ideas)
       IN log' = r.log /\ pc' = r.pc
  /\ UNCHANGED <<body, env, yt, videos, topics, newsP, redditP, rd, cl,
                 rdr, ut>>

Next ==
  \/ Start
  \/ LookupAnswer
  \/ VideosSettle
  \/ TopicsSettle
  \/ NewsSettle
  \/ RedditAnswer
  \/ Join
  \/ IdeasSettle

Spec == Init /\ [][Next]_vars

(***************************************************************************)
(* The handler with the two stage-4 collaborators replaced by test doubles *)
(* that may also reject, as in the fault-isolation test of the pipeline.   *)
(***************************************************************************)
MockErrors == {"boom", ""}

NewsThrows ==
  /\ newsP.st = "pending"
  /\ ~ContinuationReady
  /\ \E m \in MockErrors :
       /\ newsP' = Rejected(m)
       /\ log' = Ret(log, "fetchRelevantNews", FALSE, m)
  /\ UNCHANGED <<body, env, pc, yt, videos, topics, redditP, rd, cl, rdr, ut>>

RedditThrows ==
  /\ redditP.st = "pending"
  /\ ~ContinuationReady
  /\ \E m \in MockErrors :
       /\ redditP' = Rejected(m)
       /\ log' = Ret(log, "searchRedditPosts", FALSE, m)
  /\ UNCHANGED <<body, env, pc, yt, videos, topics, newsP, rd, cl, rdr, ut>>

NextMock == Next \/ NewsThrows \/ RedditThrows

MockSpec == Init /\ [][NextMock]_vars

\* Every collaborator call eventually returns or raises, and the handler
\* runs whenever it can.
FairMockSpec == MockSpec /\ WF_vars(NextMock)

(***************************************************************************)
(* The second half of a run on larger inputs: the handler waits at         *)
(* await Promise.all (line 61) in a run for a channel url with one video;  *)
(* topic extraction has returned up to MaxLongTopics topics, and the       *)
(* discussion search waits for the answer to a request for its last topic  *)
(* with the posts of the earlier topics (listings of up to MaxCollected    *)
(* children in all) already in allPosts.                                   *)
(***************************************************************************)
MaxLongTopics == 6

MaxCollected == 18

LongTopicLists == Prefixes([i \in 1..MaxLongTopics |-> TopicSample(i)])

CollectedSamples ==
  { postsOf(c) : c \in Prefixes([i \in 1..MaxCollected |-> ChildSample(i)]) }

ChannelBody ==
  [ kind |-> "object",
    url |-> [t |-> "string",
             v |-> <<"https://www.", "youtube.com/", "channel/", "UCabc">>] ]

\* The log of the run of the handler up to await Promise.all, when the
\* lookup for ChannelBody returned vs and topic extraction returned ts.
logUpToStage4(vs, ts, e) ==
  LET l1 == logLookup(startBlock(ChannelBody).log,
                      launchLookup(ChannelBody.url, e))
      l2 == logLookup(l1, lookupStep("channels", [kind |-> "ok"]))
      l3 == logLookup(l2, lookupStep("playlistItems",
                                     [kind |-> "ok", items |-> vs]))
      l4 == Ret(afterVideos(l3, vs).log, "analyzeTopics", TRUE, "")
  IN afterTopics(l4, ts, e).log

InitStage4 ==
  /\ body = ChannelBody
  /\ env \in { e \in Envs : e.YOUTUBE_API_KEY }
  /\ pc = "awaitBoth"
  /\ videos = <<VideoSample(1)>>
  /\ yt = Returned(videos)
  /\ topics \in LongTopicLists
  /\ log = logUpToStage4(videos, topics, env)
  /\ newsP = IF env.NEWS_API_KEY THEN Pending ELSE Fulfilled(<<>>)
  /\ IF searchTerms(topics) = <<>>
     THEN redditP = Fulfilled(<<>>) /\ rd = NoSearch
     ELSE /\ redditP = Pending
          /\ \E e \in 1..Len(endpoints), ps \in CollectedSamples :
               /\ Len(searchTerms(topics)) = 1 => ps = <<>>
               /\ rd = [ i |-> Len(searchTerms(topics)), e |-> e,
                         allPosts |-> ps,
                         n |-> Len(searchTerms(topics)) - 1 + e ]
  /\ cl = ClientIdle
  /\ rdr = NoReader
  /\ ut = NoUnit

NextStage4 == NewsSettle \/ RedditAnswer \/ Join \/ IdeasSettle

Stage4Spec == InitStage4 /\ [][NextStage4]_vars

(***************************************************************************)
(* The page and the route together: the page submits the url of the        *)
(* request before the route handles it, and then reads the frames of the   *)
(* stream in the order the route enqueued them, one frame per chunk.       *)
(***************************************************************************)
\* if (!url.trim()) return (line 35): the page sends a non-empty string.
ClientCanSend(b) == b.kind = "object" /\ b.url.t = "string" /\ b.url.v # <<>>

ClientSubmit ==
  /\ cl.phase = "idle"
  /\ pc = "start"
  /\ log = <<>>
  /\ ClientCanSend(body)
  /\ cl' = submit(cl)
  /\ UNCHANGED <<body, env, pc, log, yt, videos, topics, newsP, redditP, rd,
                 rdr, ut>>

ClientRead ==
  /\ cl.phase = "reading"
  /\ cl.rx < Len(Frames(log))
  /\ cl' = handleFrame(cl, Frames(log)[cl.rx + 1])
  /\ UNCHANGED <<body, env, pc, log, yt, videos, topics, newsP, redditP, rd,
                 rdr, ut>>

ClientDone ==
  /\ cl.phase = "reading"
  /\ cl.rx = Len(Frames(log))
  /\ Closed(log)
  /\ cl' = streamDone(cl)
  /\ UNCHANGED <<body, env, pc, log, yt, videos, topics, newsP, redditP, rd,
                 rdr, ut>>

NextSystem == Next \/ ClientSubmit \/ ClientRead \/ ClientDone

SystemSpec == Init /\ [][NextSystem]_vars

(***************************************************************************)
(* The page reading the stream of any producer: frames of the protocol in  *)
(* any order and with repeats, then the end of the stream.                 *)
(***************************************************************************)
MaxFrames == 3

FrameSamples ==
  { [type |-> "progress", data |-> [step |-> st, message |-> "m"]] :
      st \in {"starting", "fetching_videos", "fetching_news",
              "searching_reddit", "warming_up"} }
  \cup { [type |-> "progress",
          data |-> [step |-> "fetching_news", message |-> "again",
                    data |-> [news |-> <<>>]]],
         [type |-> "error", data |-> [message |-> "boom"]],
         [type |-> "complete",
          data |-> [topics |-> <<>>, news |-> <<>>, redditPosts |-> <<>>,
                    videoIdeas |-> <<>>]] }

InitAnyStream ==
  /\ body = [kind |-> "object",
             url |-> [t |-> "string", v |-> <<"youtube.com/", "@", "name">>]]
  /\ env = [YOUTUBE_API_KEY |-> TRUE, NEWS_API_KEY |-> TRUE]
  /\ pc = "start"
  /\ log = <<>>
  /\ yt = NoLookup
  /\ videos = <<>>
  /\ topics = <<>>
  /\ newsP = NoPromise
  /\ redditP = NoPromise
  /\ rd = NoSearch
  /\ cl = ClientIdle
  /\ rdr = NoReader
  /\ ut = NoUnit

AnyFrame ==
  /\ cl.phase # "idle"
  /\ ~Closed(log)
  /\ Len(Frames(log)) < MaxFrames
  /\ \E f \in FrameSamples : log' = sendSSE(log, f.type, f.data)
  /\ UNCHANGED <<body, env, pc, yt, videos, topics, newsP, redditP, rd, cl,
                 rdr, ut>>

AnyClose ==
  /\ cl.phase # "idle"
  /\ ~Closed(log)
  /\ log' = Close(log)
  /\ UNCHANGED <<body, env, pc, yt, videos, topics, newsP, redditP, rd, cl,
                 rdr, ut>>

NextAnyStream ==
  ClientSubmit \/ AnyFrame \/ AnyClose \/ ClientRead \/ ClientDone

AnyStreamSpec == InitAnyStream /\ [][NextAnyStream]_vars

(***************************************************************************)
(* A collaborator run on its own (ut): it is called on inputs drawn from   *)
(* the sets below and returns on an upstream answer.  For the discussion   *)
(* search, which sends several requests, ut.hist is the list of the        *)
(* requests answered so far (topic, endpoint, answer).                     *)
(***************************************************************************)
MaxUnitVideos == 4

MaxUnitTopics == 4

\* Videos with longer titles: a stop word of five letters, capitals, a word
\* that repeats, and more than eight keywords in all.
UnitVideo(i) ==
  CASE i = 1 -> VideoSample(1)
    [] i = 2 -> VideoSample(2)
    [] i = 3 -> [ id |-> "u3",
                  title |-> <<"Where", "kubernetes", "Docker", "python",
                              "golang">> ]
    [] i = 4 -> [ id |-> "u4",
                  title |-> <<"typescript", "angular", "svelte", "webpack",
                              "deploy", "css", "react">> ]
    [] OTHER -> [ id |-> "u" \o ToString(i),
                  title |-> <<"extra" \o ToString(i), "docker">> ]

UnitVideoLists ==
  Prefixes([i \in 1..MaxUnitVideos |-> UnitVideo(i)])
    \cup { <<UnitVideo(i)>> : i \in 1..MaxUnitVideos }

UnitTopicLists == Prefixes([i \in 1..MaxUnitTopics |-> TopicSample(i)])

UnitInputs ==
  { [f |-> "generateVideoIdeas", st |-> "called", ts |-> ts, a |-> a,
     out |-> <<>>] : ts \in LongTopicLists, a \in IdeaAnswers }
  \cup { [f |-> "analyzeTopics", st |-> "called", vs |-> vs, a |-> a,
          out |-> <<>>] : vs \in UnitVideoLists, a \in TopicAnswers }
  \cup UNION { { [f |-> "fetchChannelVideos", st |-> "called", req |-> q,
                  a |-> a, out |-> NoLookup] : a \in YoutubeAnswers(q) } :
               q \in Requests }
  \cup { [f |-> "searchRedditPosts", st |-> "called", ts |-> ts,
          rd |-> NoSearch, hist |-> <<>>, out |-> <<>>] :
          ts \in UnitTopicLists }

InitUnit ==
  /\ body = ChannelBody
  /\ env = [YOUTUBE_API_KEY |-> TRUE, NEWS_API_KEY |-> TRUE]
  /\ pc = "start"
  /\ log = <<>>
  /\ yt = NoLookup
  /\ videos = <<>>
  /\ topics = <<>>
  /\ newsP = NoPromise
  /\ redditP = NoPromise
  /\ rd = NoSearch
  /\ cl = ClientIdle
  /\ rdr = NoReader
  /\ ut \in UnitInputs

\* generateVideoIdeas returns on the answer of the chat completion.
IdeasReturn ==
  /\ ut.f = "generateVideoIdeas"
  /\ ut.st = "called"
  /\ ut' = [ut EXCEPT !.st = "returned",
                      !.out = generateVideoIdeas(ut.ts, <<>>, <<>>, <<>>,
                                                 ut.a)]
  /\ UNCHANGED <<body, env, pc, log, yt, videos, topics, newsP, redditP, rd,
                 cl, rdr>>

\* analyzeTopics returns on the answer of the chat completion.
TopicsReturn ==
  /\ ut.f = "analyzeTopics"
  /\ ut.st = "called"
  /\ ut' = [ut EXCEPT !.st = "returned", !.out = analyzeTopics(ut.vs, ut.a)]
  /\ UNCHANGED <<body, env, pc, log, yt, videos, topics, newsP, redditP, rd,
                 cl, rdr>>

\* fetchChannelVideos goes on from the answer to its request req.
LookupReturn ==
  /\ ut.f = "fetchChannelVideos"
  /\ ut.st = "called"
  /\ ut' = [ut EXCEPT !.st = "returned", !.out = lookupStep(ut.req, ut.a)]
  /\ UNCHANGED <<body, env, pc, log, yt, videos, topics, newsP, redditP, rd,
                 cl, rdr>>

\* searchRedditPosts up to its first request (reddit.ts lines 16-44).
SearchLaunch ==
  /\ ut.f = "searchRedditPosts"
  /\ ut.st = "called"
  /\ ut' = IF searchTerms(ut.ts) = <<>>
           THEN [ut EXCEPT !.st = "returned", !.out = uniquePosts(<<>>)]
           ELSE [ut EXCEPT !.st = "waiting",
                           !.rd = [i |-> 1, e |-> 1, allPosts |-> <<>>,
                                   n |-> 1]]
  /\ UNCHANGED <<body, env, pc, log, yt, videos, topics, newsP, redditP, rd,
                 cl, rdr>>

\* A request of searchRedditPosts is answered.
SearchAnswer ==
  /\ ut.f = "searchRedditPosts"
  /\ ut.st = "waiting"
  /\ \E a \in RedditAnswers :
       LET r == redditStep(ut.rd, a, Len(searchTerms(ut.ts)))
           h == Append(ut.hist, [i |-> ut.rd.i, e |-> ut.rd.e, a |-> a])
       IN ut' = IF r.i > Len(searchTerms(ut.ts))
                THEN [ut EXCEPT !.st = "returned", !.rd = r, !.hist = h,
                                !.out = uniquePosts(r.allPosts)]
                ELSE [ut EXCEPT !.rd = r, !.hist = h]
  /\ UNCHANGED <<body, env, pc, log, yt, videos, topics, newsP, redditP, rd,
                 cl, rdr>>

NextUnit ==
  IdeasReturn \/ TopicsReturn \/ LookupReturn \/ SearchLaunch \/ SearchAnswer

UnitSpec == InitUnit /\ [][NextUnit]_vars

(***************************************************************************)
(* The page reading the bytes of the stream in chunks (rdr).  The text of  *)
(* a frame is cut into pieces, and a chunk is any number of the pieces     *)
(* that follow the ones read so far: a chunk can end inside the prefix     *)
(* 'data: ', inside the JSON text, between the two line feeds, or hold     *)
(* several frames.                                                         *)
(***************************************************************************)
\* The message of sendSSE (line 9) for the frame f, `data: ${json}\n\n`,
\* with the JSON text in two halves.
encode(f) ==
  << [c |-> "da"], [c |-> "ta: "],
     [c |-> "json", f |-> f, part |-> 1],
     [c |-> "json", f |-> f, part |-> 2],
     [c |-> "\n"], [c |-> "\n"] >>

PiecesPerFrame == 6

\* The bytes enqueued so far, in order.
Text(l) ==
  LET fs == Frames(l)
  IN [k \in 1..(PiecesPerFrame * Len(fs)) |->
        encode(fs[((k - 1) \div PiecesPerFrame) + 1])
          [((k - 1) % PiecesPerFrame) + 1]]

\* t.split('\n'): the pieces between the line feeds, one more than there
\* are line feeds.
split(t) ==
  LET nl == { i \in 1..Len(t) : t[i].c = "\n" }
      n == Cardinality(nl)
      from(j) == IF j = 1 THEN 1 ELSE Nth(nl, j - 1) + 1
      to(j) == IF j = n + 1 THEN Len(t) ELSE Nth(nl, j) - 1
  IN [j \in 1..(n + 1) |-> SubSeq(t, from(j), to(j))]

\* A read loop that forgets what follows the last line feed of a chunk.
dropBuffer(lines) == <<>>

\* buffer = lines.pop() || '' (line 88).
nextBuffer(lines) == lines[Len(lines)]

\* line.startsWith('data: ') (line 91).
startsWithData(line) ==
  Len(line) >= 2 /\ line[1].c = "da" /\ line[2].c = "ta: "

\* JSON.parse(line.slice(6)) (line 93) returns: the rest of the line is the
\* whole JSON text of one frame.
parses(line) ==
  LET rest == SubSeq(line, 3, Len(line))
  IN /\ Len(rest) = 2
     /\ rest[1].c = "json" /\ rest[1].part = 1
     /\ rest[2].c = "json" /\ rest[2].part = 2
     /\ rest[1].f = rest[2].f

IsFrameLine(line) == startsWithData(line) /\ parses(line)

JSONparse(line) == line[3].f

\* for (const line of lines) (lines 90-134): a line that is not a frame is
\* skipped, or its parse error is caught and logged (lines 130-132).
RECURSIVE handleLines(_, _)
handleLines(c, lines) ==
  IF lines = <<>> THEN c
  ELSE handleLines(IF IsFrameLine(Head(lines))
                   THEN handleFrame(c, JSONparse(Head(lines)))
                   ELSE c,
                   Tail(lines))

\* The frames of the lines the loop has handled.
framesOf(lines) ==
  LET fl == SelectSeq(lines, IsFrameLine)
  IN [i \in 1..Len(fl) |-> JSONparse(fl[i])]

\* One turn of the read loop (lines 82-134) on a chunk of k pieces.
ChunkRead ==
  /\ cl.phase = "reading"
  /\ \E k \in 1..(Len(Text(log)) - rdr.pos) :
       LET value == SubSeq(Text(log), rdr.pos + 1, rdr.pos + k)
           all == split(rdr.buffer \o value)
           lines == SubSeq(all, 1, Len(all) - 1)
       IN /\ cl' = handleLines(cl, lines)
          /\ rdr' = [ pos |-> rdr.pos + k,
                      buffer |-> nextBuffer(all),
                      handled |-> rdr.handled \o framesOf(lines),
                      joined |-> \/ rdr.joined
                                 \/ /\ rdr.buffer # <<>>
                                    /\ Len(all) > 1
                                    /\ IsFrameLine(all[1]) ]
  /\ UNCHANGED <<body, env, pc, log, yt, videos, topics, newsP, redditP, rd,
                 ut>>

\* reader.read() gives done (line 84) once every byte was read and the
\* stream is closed.
ChunkDone ==
  /\ cl.phase = "reading"
  /\ rdr.pos = Len(Text(log))
  /\ Closed(log)
  /\ cl' = streamDone(cl)
  /\ UNCHANGED <<body, env, pc, log, yt, videos, topics, newsP, redditP, rd,
                 rdr, ut>>

NextChunk == ClientSubmit \/ AnyFrame \/ AnyClose \/ ChunkRead \/ ChunkDone

ChunkSpec == InitAnyStream /\ [][NextChunk]_vars

(***************************************************************************)
(* Properties.  They read the log: the frames in emission order, and where *)
(* in the log frames, calls, returns and requests are.                     *)
(***************************************************************************)
F == Frames(log)

LogIdx == 1..Len(log)

TerminalAt == { i \in LogIdx : log[i].k = "emit"
                                 /\ log[i].f.type \in {"complete", "error"} }

EmitAt == { i \in LogIdx : log[i].k = "emit" }

CloseAt == { i \in LogIdx : log[i].k = "close" }

StepAt(step) ==
  { i \in LogIdx : /\ log[i].k = "emit"
                   /\ log[i].f.type = "progress"
                   /\ log[i].f.data.step = step }

CallAt(name) == { i \in LogIdx : log[i].k = "call" /\ log[i].name = name }

RetAt(name) == { i \in LogIdx : log[i].k = "ret" /\ log[i].name = name }

CallsAt == { i \in LogIdx : log[i].k = "call" }

HttpAt == { i \in LogIdx : log[i].k = "http" }

LastFrame == F[Len(F)]

\* C1: in every run at most one terminal event (complete or error) is
\* emitted, no frame is enqueued after it, and the channel is closed only
\* after a terminal event has been emitted.
C1_OneTerminalEvent ==
  /\ Cardinality(TerminalAt) <= 1
  /\ \A t \in TerminalAt : \A i \in EmitAt : i <= t
  /\ \A c \in CloseAt : \E t \in TerminalAt : t < c
  /\ Cardinality(CloseAt) <= 1

C1_Witness ==
  /\ Closed(log)
  /\ Len(F) > 1
  /\ LastFrame.type = "error"
  /\ newsP.st = "rejected"

\* C2: when every collaborator call returns or raises, every run eventually
\* emits a terminal event and closes the channel.
C2_EventuallyTerminalAndClosed ==
  <>(TerminalAt # {} /\ CloseAt # {} /\ pc = "done")

C2_Witness ==
  /\ pc = "done"
  /\ CloseAt # {}
  /\ LastFrame.type = "complete"

\* C3: for a request whose url is missing, empty or not a string, the first
\* event is a terminal error, it is the only event, and no collaborator is
\* invoked.
UrlMissingEmptyOrNotString ==
  \/ body.kind # "object"
  \/ body.url.t # "string"
  \/ body.url.v = <<>>

C3_InvalidUrlErrorOnly ==
  (UrlMissingEmptyOrNotString /\ pc # "start")
    => /\ Len(F) = 1
       /\ F[1].type = "error"
       /\ CallsAt = {}
       /\ HttpAt = {}
       /\ pc = "done"
       /\ Closed(log)

C3_Witness ==
  /\ body.kind = "object"
  /\ body.url.t = "number"
  /\ body.url.v = 42
  /\ pc = "done"
  /\ F[1].data.message = "YouTube channel URL is required"

\* C4: if video lookup returns an empty array, the terminal event is an
\* error saying that no videos were found, videos_fetched is never emitted
\* and no other collaborator is invoked.
LookupReturnedEmpty ==
  /\ \E i \in RetAt("fetchChannelVideos") : log[i].ok
  /\ yt.videos = <<>>
  /\ pc # "awaitVideos"

C4_NoVideosError ==
  LookupReturnedEmpty
    => /\ pc = "done"
       /\ LastFrame.type = "error"
       /\ LastFrame.data.message = "No videos found for this channel"
       /\ Cardinality(TerminalAt) = 1
       /\ StepAt("videos_fetched") = {}
       /\ \A i \in CallsAt : log[i].name = "fetchChannelVideos"

C4_Witness ==
  /\ LookupReturnedEmpty
  /\ Len(F) = 2
  /\ Closed(log)

\* C5: if video lookup raises an error with message m, the terminal event
\* is an error whose message is exactly m, and the lookup is not retried.
C5_LookupErrorVerbatim ==
  \A i \in RetAt("fetchChannelVideos") :
    (~log[i].ok /\ pc # "awaitVideos")
      => /\ pc = "done"
         /\ LastFrame.type = "error"
         /\ LastFrame.data.message = log[i].err
         /\ Cardinality(TerminalAt) = 1
         /\ Cardinality(CallAt("fetchChannelVideos")) = 1

C5_Witness ==
  /\ \E i \in RetAt("fetchChannelVideos") : ~log[i].ok
  /\ LastFrame.type = "error"
  /\ LastFrame.data.message = "Failed to fetch videos: "

\* C6 (as claimed): for a malformed string url the terminal error is the
\* first event of the stream and no upstream request is made.
MalformedUrl ==
  /\ body.kind = "object"
  /\ body.url.t = "string"
  /\ body.url.v # <<>>
  /\ \A n \in 1..Len(patterns) : MatchAt(body.url.v, patterns[n].prefix) = {}

C6_ErrorIsFirstEvent ==
  (MalformedUrl /\ pc = "done")
    => /\ F[1].type = "error"
       /\ HttpAt = {}

\* C6 (amended): for a malformed string url no upstream request is made and
\* the run ends with a terminal error that directly follows the one
\* fetching_videos progress event; its message is that of the lookup.
C6_ErrorAfterFetchingVideos ==
  MalformedUrl
    => /\ HttpAt = {}
       /\ \A i \in CallsAt : log[i].name = "fetchChannelVideos"
       /\ pc \in {"start", "awaitVideos", "done"}
       /\ pc = "done"
            => /\ Len(F) = 2
               /\ F[1].type = "progress"
               /\ F[1].data.step = "fetching_videos"
               /\ F[2].type = "error"
               /\ F[2].data.message =
                    IF env.YOUTUBE_API_KEY THEN "Invalid YouTube channel URL"
                    ELSE "YOUTUBE_API_KEY is not set"
               /\ Closed(log)

C6_Witness ==
  /\ MalformedUrl
  /\ pc = "done"
  /\ LastFrame.data.message = "Invalid YouTube channel URL"

\* C7: when video lookup returns at least one video, no error event is
\* emitted and the terminal event is complete, carrying the four arrays
\* topics, news, redditPosts and videoIdeas.
C7_CompleteWithFourArrays ==
  (yt.at = "returned" /\ yt.videos # <<>>)
    => /\ \A i \in 1..Len(F) : F[i].type # "error"
       /\ pc = "done"
            => /\ LastFrame.type = "complete"
               /\ {"topics", "news", "redditPosts", "videoIdeas"}
                    \subseteq DOMAIN LastFrame.data
               /\ Cardinality(TerminalAt) = 1

C7_Witness ==
  /\ pc = "done"
  /\ LastFrame.type = "complete"
  /\ LastFrame.data.news = <<>>
  /\ LastFrame.data.redditPosts = <<>>
  /\ LastFrame.data.topics # <<>>

\* C8: when the news search and/or the discussion search rejects, the run
\* still ends with complete, with an empty list for each one that rejected.
C8_FaultIsolation ==
  (pc = "done" /\ (newsP.st = "rejected" \/ redditP.st = "rejected"))
    => /\ LastFrame.type = "complete"
       /\ newsP.st = "rejected" => LastFrame.data.news = <<>>
       /\ redditP.st = "rejected" => LastFrame.data.redditPosts = <<>>

\* C9 (as claimed): both stage-4 announcements are in the stream before
\* either search is started, and so before either resolves.
Stage4Announced(i) ==
  /\ \E a \in StepAt("fetching_news") : a < i
  /\ \E b \in StepAt("searching_reddit") : b < i

C9_BothAnnouncedBeforeEitherLaunch ==
  \A i \in CallAt("fetchRelevantNews") \cup CallAt("searchRedditPosts")
             \cup RetAt("fetchRelevantNews") \cup RetAt("searchRedditPosts") :
    Stage4Announced(i)

\* C9 (amended): each announcement is emitted immediately before its own
\* search is started; both are in the stream before the discussion search
\* is started or resolves and before news_fetched and reddit_searched; the
\* news search is started before searching_reddit is emitted.
C9_EachAnnouncedBeforeItsLaunch ==
  /\ \A c \in CallAt("fetchRelevantNews") : (c - 1) \in StepAt("fetching_news")
  /\ \A c \in CallAt("searchRedditPosts") :
       (c - 1) \in StepAt("searching_reddit") /\ Stage4Announced(c)
  /\ \A r \in RetAt("searchRedditPosts") : Stage4Announced(r)
  /\ \A j \in StepAt("news_fetched") \cup StepAt("reddit_searched") :
       Stage4Announced(j)
  /\ \A c \in CallAt("fetchRelevantNews") :
       \A b \in StepAt("searching_reddit") : c < b
  /\ StepAt("searching_reddit") # {} => CallAt("fetchRelevantNews") # {}

C9_Witness ==
  /\ ~env.NEWS_API_KEY
  /\ \E r \in RetAt("fetchRelevantNews") :
       \E b \in StepAt("searching_reddit") : r < b
  /\ redditP.st = "pending"

\* C10: news_fetched, reddit_searched and the call of idea generation come
\* only after both searches have returned; news_fetched is then emitted
\* directly before reddit_searched; and the stream depends on what the two
\* searches returned only, not on which returned first.
BothReturnedBefore(j) ==
  /\ \E r \in RetAt("fetchRelevantNews") : r < j
  /\ \E r \in RetAt("searchRedditPosts") : r < j

Stage4Stream(vs, ts, n, r) ==
  << [type |-> "progress",
      data |-> [step |-> "fetching_videos",
                message |-> "Fetching YouTube videos..."]],
     [type |-> "progress",
      data |-> [step |-> "videos_fetched",
                message |-> "Found " \o ToString(Len(vs)) \o " videos",
                data |-> [videoCount |-> Len(vs)]]],
     [type |-> "progress",
      data |-> [step |-> "analyzing_topics",
                message |-> "Analyzing topics with AI..."]],
     [type |-> "progress",
      data |-> [step |-> "topics_analyzed",
                message |-> "Identified " \o ToString(Len(ts)) \o " main topics",
                data |-> [topics |-> ts]]],
     [type |-> "progress",
      data |-> [step |-> "fetching_news",
                message |-> "Fetching relevant news..."]],
     [type |-> "progress",
      data |-> [step |-> "searching_reddit",
                message |-> "Searching Reddit discussions..."]],
     [type |-> "progress",
      data |-> [step |-> "news_fetched",
                message |-> "Found " \o ToString(Len(n)) \o " news articles",
                data |-> [news |-> n]]],
     [type |-> "progress",
      data |-> [step |-> "reddit_searched",
                message |-> "Found " \o ToString(Len(r)) \o " Reddit discussions",
                data |-> [redditPosts |-> r]]],
     [type |-> "progress",
      data |-> [step |-> "generating_ideas",
                message |-> "Generating video ideas with AI..."]] >>

C10_Stage4Barrier ==
  /\ \A j \in StepAt("news_fetched") \cup StepAt("reddit_searched")
                \cup CallAt("generateVideoIdeas") : BothReturnedBefore(j)
  /\ \A a \in StepAt("news_fetched") : (a + 1) \in StepAt("reddit_searched")
  /\ \A b \in StepAt("reddit_searched") : (b - 1) \in StepAt("news_fetched")
  /\ (StepAt("news_fetched") # {} \/ pc = "awaitIdeas")
       => /\ newsP.st = "fulfilled"
          /\ redditP.st = "fulfilled"
          /\ Len(F) >= 9
          /\ SubSeq(F, 1, 9)
               = Stage4Stream(yt.videos, topics, newsP.val, redditP.val)

C10_Witness ==
  /\ pc = "awaitIdeas"
  /\ newsP.val # <<>>
  /\ redditP.val # <<>>
  /\ \E rr \in RetAt("searchRedditPosts") :
       \E rn \in RetAt("fetchRelevantNews") : rr < rn

\* C11: with the two stage-4 announcements (fetching_news, searching_reddit)
\* left out, the rank in the step table of the progress steps of a run never
\* decreases along the stream.
RankedAt ==
  { i \in 1..Len(F) : /\ F[i].type = "progress"
                      /\ F[i].data.step \notin {"fetching_news",
                                                "searching_reddit"} }

C11_RanksNonDecreasing ==
  \A i \in RankedAt : \A j \in RankedAt :
    i < j => indexOf(F[i].data.step) <= indexOf(F[j].data.step)

C11_Witness ==
  /\ pc = "done"
  /\ LastFrame.type = "complete"
  /\ Cardinality(RankedAt) = 8
  /\ StepAt("news_fetched") # {}
  /\ StepAt("reddit_searched") # {}

\* C12: once the page has handled an error frame it shows the message of
\* the frame as its error and is no longer loading.
HandledFrames == 1..cl.rx

C12_ErrorFrameEndsLoading ==
  \A i \in HandledFrames :
    F[i].type = "error"
      => /\ cl.error = <<F[i].data.message>>
         /\ ~cl.loading

\* C13: whatever progress frames the page has handled, in any order and
\* with repeats, its progress list is ordered by the rank of the steps in
\* the step table and has one entry per step, the entry of the last frame
\* handled for that step.
LastHandledFor(k) ==
  /\ F[k].type = "progress"
  /\ \A m \in HandledFrames :
       (m > k /\ F[m].type = "progress")
         => F[m].data.step # F[k].data.step

C13_ProgressSortedAndUnique ==
  LET p == cl.progress
  IN /\ \A i \in 1..Len(p) : \A j \in 1..Len(p) :
          i < j => /\ indexOf(p[i].step) <= indexOf(p[j].step)
                   /\ p[i].step # p[j].step
     /\ \A k \in HandledFrames :
          LastHandledFor(k) => \E i \in 1..Len(p) : p[i] = newStep(F[k].data)

C13_Witness ==
  /\ cl.rx = 3
  /\ \E i \in HandledFrames : \E j \in HandledFrames :
       /\ i < j
       /\ F[i].type = "progress" /\ F[j].type = "progress"
       /\ F[i].data.step = F[j].data.step
       /\ F[i].data.message # F[j].data.message
  /\ \E i \in HandledFrames : \E j \in HandledFrames :
       /\ i < j
       /\ F[i].type = "progress" /\ F[j].type = "progress"
       /\ indexOf(F[i].data.step) > indexOf(F[j].data.step)

\* C14: the idea list of ideas_generated and of complete has at most 5
\* entries, whether the ideas come from the language model or from the
\* fallback.
IdeasFramesAt ==
  { i \in 1..Len(F) :
      \/ F[i].type = "complete"
      \/ F[i].type = "progress" /\ F[i].data.step = "ideas_generated" }

IdeasOf(f) ==
  IF f.type = "complete" THEN f.data.videoIdeas ELSE f.data.data.videoIdeas

C14_AtMostFiveIdeas ==
  \A i \in IdeasFramesAt : Len(IdeasOf(F[i])) <= 5

C14_Witness ==
  /\ pc = "done"
  /\ LastFrame.type = "complete"
  /\ Len(topics) > 5
  /\ Len(LastFrame.data.videoIdeas) = 5
  /\ LastFrame.data.videoIdeas[5] = fallbackIdea(topics[5])

\* C15: the idea list of ideas_generated and of complete has exactly 5
\* entries, as the message 'Generated 5 video ideas' says.
C15_ExactlyFiveIdeas ==
  \A i \in IdeasFramesAt :
    /\ Len(IdeasOf(F[i])) = 5
    /\ F[i].type = "progress" => F[i].data.message = "Generated 5 video ideas"

\* C16: the discussion list the search returns, and so the one carried by
\* reddit_searched and by complete, has no two posts with the same url and
\* at most 10 posts, whatever the listings of the upstream answers were.
UniqueUrlsAtMostTen(ps) ==
  /\ Len(ps) <= 10
  /\ \A a \in 1..Len(ps) : \A b \in 1..Len(ps) :
       a < b => ps[a].url # ps[b].url

DiscussionFramesAt ==
  { i \in 1..Len(F) :
      \/ F[i].type = "complete"
      \/ F[i].type = "progress" /\ F[i].data.step = "reddit_searched" }

DiscussionsOf(f) ==
  IF f.type = "complete" THEN f.data.redditPosts ELSE f.data.data.redditPosts

C16_DiscussionsUniqueAndCapped ==
  /\ \A i \in DiscussionFramesAt : UniqueUrlsAtMostTen(DiscussionsOf(F[i]))
  /\ redditP.st = "fulfilled" => UniqueUrlsAtMostTen(redditP.val)
  /\ redditP.st = "pending" => UniqueUrlsAtMostTen(uniquePosts(rd.allPosts))

C16_Witness ==
  /\ redditP.st = "pending"
  /\ Len(rd.allPosts) > 10
  /\ \E a \in 1..Len(rd.allPosts) : \E b \in 1..Len(rd.allPosts) :
       a < b /\ rd.allPosts[a].url = rd.allPosts[b].url
  /\ Cardinality({ rd.allPosts[a].url : a \in 1..Len(rd.allPosts) }) > 10
  /\ Len(uniquePosts(rd.allPosts)) = 10

\* C17: with NEWS_API_KEY unset the news search returns the empty list at
\* once and sends no upstream request, and a run with at least one video
\* ends with complete and news = [].
C17_NewsOptional ==
  ~env.NEWS_API_KEY
    => /\ \A h \in HttpAt : log[h].api # "newsapi"
       /\ \A c \in CallAt("fetchRelevantNews") :
            /\ (c + 1) \in RetAt("fetchRelevantNews")
            /\ log[c + 1].ok
       /\ newsP.st \in {"none", "fulfilled"}
       /\ newsP.val = <<>>
       /\ (pc = "done" /\ yt.at = "returned" /\ yt.videos # <<>>)
            => /\ LastFrame.type = "complete"
               /\ LastFrame.data.news = <<>>

C17_Witness ==
  /\ ~env.NEWS_API_KEY
  /\ pc = "done"
  /\ CallAt("fetchRelevantNews") # {}
  /\ LastFrame.type = "complete"
  /\ LastFrame.data.news = <<>>
  /\ LastFrame.data.redditPosts # <<>>

\* C18: a run that emits an error has called no collaborator other than the
\* video lookup, and once videos_fetched is emitted no error is emitted and
\* the run ends with complete.
ErrorAt ==
  { i \in LogIdx : log[i].k = "emit" /\ log[i].f.type = "error" }

C18_ErrorOnlyFromLookup ==
  /\ ErrorAt # {}
       => \A c \in CallsAt : log[c].name = "fetchChannelVideos"
  /\ StepAt("videos_fetched") # {}
       => /\ ErrorAt = {}
          /\ pc = "done" => LastFrame.type = "complete"

C18_Witness ==
  /\ pc = "done"
  /\ ErrorAt # {}
  /\ HttpAt # {}
  /\ yt.at = "threw"
  /\ CallAt("fetchChannelVideos") # {}

\* C19: a run goes through the stages in the one order start, video
\* lookup, topic extraction, the two searches, idea generation, done, and
\* leaves this path only to end with an error; each collaborator is called
\* at most once and only after the call of the stage before has returned;
\* each 'before' event is in the stream when its collaborator is called and
\* each 'after' event is emitted after that call has returned.
Collaborators ==
  { "fetchChannelVideos", "analyzeTopics", "fetchRelevantNews",
    "searchRedditPosts", "generateVideoIdeas" }

Before(A, B) == \A b \in B : \E a \in A : a < b

NextStage(p) ==
  CASE p = "start" -> {"awaitVideos", "done"}
    [] p = "awaitVideos" -> {"awaitTopics", "done"}
    [] p = "awaitTopics" -> {"awaitBoth"}
    [] p = "awaitBoth" -> {"awaitIdeas", "done"}
    [] p = "awaitIdeas" -> {"done"}
    [] OTHER -> {}

CallsInOrder ==
  /\ \A name \in Collaborators : Cardinality(CallAt(name)) <= 1
  /\ Before({ r \in RetAt("fetchChannelVideos") : log[r].ok },
            CallAt("analyzeTopics"))
  /\ Before(RetAt("analyzeTopics"),
            CallAt("fetchRelevantNews") \cup CallAt("searchRedditPosts"))
  /\ Before(RetAt("fetchRelevantNews"), CallAt("generateVideoIdeas"))
  /\ Before(RetAt("searchRedditPosts"), CallAt("generateVideoIdeas"))
  /\ Before(StepAt("fetching_videos"), CallAt("fetchChannelVideos"))
  /\ Before(StepAt("analyzing_topics"), CallAt("analyzeTopics"))
  /\ Before(StepAt("generating_ideas"), CallAt("generateVideoIdeas"))
  /\ Before(RetAt("fetchChannelVideos"), StepAt("videos_fetched"))
  /\ Before(RetAt("analyzeTopics"), StepAt("topics_analyzed"))
  /\ Before(RetAt("generateVideoIdeas"), StepAt("ideas_generated"))
  /\ (pc = "done" /\ ErrorAt = {}) => CallAt("generateVideoIdeas") # {}

C19_SinglePath ==
  /\ []CallsInOrder
  /\ [][pc' # pc => pc' \in NextStage(pc)]_vars

C19_Witness ==
  /\ pc = "done"
  /\ LastFrame.type = "complete"
  /\ \A name \in Collaborators : Cardinality(CallAt(name)) = 1
  /\ HttpAt # {}

\* C20: in a run that ends with complete, the payload carries the lists of
\* the progress events: topics that of topics_analyzed, news that of
\* news_fetched, redditPosts that of reddit_searched and videoIdeas that of
\* ideas_generated; the same topics were passed to the two searches and to
\* idea generation, which also got the news, the discussions and the titles
\* of all the videos the lookup returned.
DataOf(step) == { log[i].f.data.data : i \in StepAt(step) }

ArgsOf(name) == { log[c].args : c \in CallAt(name) }

C20_PayloadConsistent ==
  (pc = "done" /\ LastFrame.type = "complete")
    => LET d == LastFrame.data
       IN /\ DataOf("topics_analyzed") = { [topics |-> d.topics] }
          /\ DataOf("news_fetched") = { [news |-> d.news] }
          /\ DataOf("reddit_searched") = { [redditPosts |-> d.redditPosts] }
          /\ DataOf("ideas_generated") = { [videoIdeas |-> d.videoIdeas] }
          /\ ArgsOf("fetchRelevantNews") = { <<d.topics>> }
          /\ ArgsOf("searchRedditPosts") = { <<d.topics>> }
          /\ ArgsOf("generateVideoIdeas")
               = { << d.topics, d.news, d.redditPosts,
                      [i \in 1..Len(yt.videos) |-> yt.videos[i].title] >> }

C20_Witness ==
  /\ pc = "done"
  /\ LastFrame.type = "complete"
  /\ Len(yt.videos) = 2
  /\ LastFrame.data.topics # <<>>
  /\ LastFrame.data.news # <<>>
  /\ LastFrame.data.redditPosts # <<>>
  /\ LastFrame.data.videoIdeas # <<>>

\* C21: generateVideoIdeas always returns, and when the chat completion
\* fails, has no content, is not JSON, or has ideas missing, not an array
\* or empty, it returns one templated idea for each of the first 5 topics,
\* in the order of the topics.
IdeasFailure(a) ==
  \/ a.kind \in {"error", "nocontent", "badjson", "null", "noideas",
                 "notarray"}
  \/ a.kind = "ideas" /\ a.list = <<>>

Min(a, b) == IF a < b THEN a ELSE b

C21_IdeasFallback ==
  ut.f = "generateVideoIdeas"
    => /\ ut.st \in {"called", "returned"}
       /\ (ut.st = "returned" /\ IdeasFailure(ut.a))
            => /\ Len(ut.out) = Min(5, Len(ut.ts))
               /\ \A i \in 1..Len(ut.out) :
                    /\ ut.out[i].title
                         = "Latest Updates on " \o ut.ts[i] \o " - 2024"
                    /\ ut.out[i] = fallbackIdea(ut.ts[i])

C21_Witness ==
  /\ ut.f = "generateVideoIdeas"
  /\ ut.st = "returned"
  /\ ut.a.kind = "notarray"
  /\ Len(ut.ts) = 6
  /\ Len(ut.out) = 5

\* C22: analyzeTopics always returns, and when the chat completion fails,
\* has no content or is not JSON, it returns a list that depends on the
\* titles of the videos only, has at most 8 entries and no entry twice, and
\* holds only lower-cased words of the titles that are longer than 4
\* characters and are not stop words.
TopicsFailure(a) == a.kind \in {"error", "nocontent", "badjson", "null"}

C22_KeywordFallback ==
  ut.f = "analyzeTopics"
    => /\ ut.st \in {"called", "returned"}
       /\ (ut.st = "returned" /\ TopicsFailure(ut.a))
            => /\ Len(ut.out) <= 8
               /\ \A i \in 1..Len(ut.out) : \A j \in 1..Len(ut.out) :
                    i < j => ut.out[i] # ut.out[j]
               /\ \A i \in 1..Len(ut.out) :
                    /\ \E v \in 1..Len(ut.vs) :
                         \E w \in 1..Len(ut.vs[v].title) :
                           ut.out[i] = toLowerCase(ut.vs[v].title[w])
                    /\ Len(ut.out[i]) > 4
                    /\ ut.out[i] \notin commonWords
               /\ \A b \in { x \in TopicAnswers : TopicsFailure(x) } :
                    analyzeTopics(ut.vs, b) = ut.out

C22_Witness ==
  /\ ut.f = "analyzeTopics"
  /\ ut.st = "returned"
  /\ ut.a.kind = "badjson"
  /\ Len(ut.vs) = 4
  /\ Len(ut.out) = 8
  /\ \E w \in 1..Len(ut.vs[3].title) :
       toLowerCase(ut.vs[3].title[w]) = "where"

\* C23: searchRedditPosts searches the first three topics only; for each
\* it asks www.reddit.com first and old.reddit.com second, the second only
\* when the first gave no listing (403, 429, no listing, or a failure), and
\* after a listing it goes on to the next topic; so it sends at most 6
\* requests.
NextRequest(h) ==
  IF h.a.kind = "listing" \/ h.e = 2
  THEN [i |-> h.i + 1, e |-> 1]
  ELSE [i |-> h.i, e |-> 2]

RequestOf(x) == [i |-> x.i, e |-> x.e]

C23_SearchOrder ==
  ut.f = "searchRedditPosts"
    => LET h == ut.hist
       IN /\ endpoints[1] = "https://www.reddit.com/search.json"
          /\ endpoints[2] = "https://old.reddit.com/search.json"
          /\ Len(h) <= 6
          /\ ut.rd.n <= 6
          /\ \A k \in 1..Len(h) :
               /\ h[k].i \in 1..3
               /\ h[k].i <= Len(ut.ts)
               /\ h[k].e \in 1..2
          /\ Len(h) > 0 => RequestOf(h[1]) = [i |-> 1, e |-> 1]
          /\ \A k \in 1..(Len(h) - 1) :
               RequestOf(h[k + 1]) = NextRequest(h[k])
          /\ ut.st = "waiting"
               => /\ ut.rd.n = Len(h) + 1
                  /\ ut.rd.i \in 1..3
                  /\ RequestOf(ut.rd) = IF h = <<>> THEN [i |-> 1, e |-> 1]
                                        ELSE NextRequest(h[Len(h)])
          /\ ut.st = "returned"
               => /\ ut.rd.n = Len(h)
                  /\ \A t \in 1..Min(3, Len(ut.ts)) :
                       \E k \in 1..Len(h) : h[k].i = t

C23_Witness ==
  /\ ut.f = "searchRedditPosts"
  /\ ut.st = "returned"
  /\ Len(ut.ts) = 4
  /\ Len(ut.hist) = 5
  /\ ut.hist[1].a.kind = "listing"
  /\ ut.hist[2].a.kind = "429"
  /\ ut.hist[4].a.kind = "throw"

\* C24: searchRedditPosts always returns, and when every endpoint fails
\* for a topic it goes on with the next topic and still returns the posts
\* of the listings it got for the other topics.
AllFailedFor(t) ==
  /\ \E k \in 1..Len(ut.hist) : ut.hist[k].i = t /\ ut.hist[k].e = 2
  /\ \A k \in 1..Len(ut.hist) :
       ut.hist[k].i = t => ut.hist[k].a.kind # "listing"

ListedUrls ==
  UNION { { "https://www.reddit.com" \o ut.hist[k].a.children[m].permalink :
              m \in { n \in 1..Len(ut.hist[k].a.children) :
                        NotAdult(ut.hist[k].a.children[n]) } } :
          k \in { j \in 1..Len(ut.hist) : ut.hist[j].a.kind = "listing" } }

C24_SearchGoesOn ==
  ut.f = "searchRedditPosts"
    => /\ ut.st \in {"called", "waiting", "returned"}
       /\ ut.st = "returned"
            => /\ \A t \in 1..Min(3, Len(ut.ts)) :
                    \E k \in 1..Len(ut.hist) : ut.hist[k].i = t
               /\ \/ Len(ut.out) = 10
                  \/ { ut.out[i].url : i \in 1..Len(ut.out) } = ListedUrls

C24_Witness ==
  /\ ut.f = "searchRedditPosts"
  /\ ut.st = "returned"
  /\ Len(ut.ts) = 3
  /\ AllFailedFor(2)
  /\ ut.hist[1].a.kind = "listing"
  /\ ut.hist[Len(ut.hist)].a.kind = "listing"
  /\ Len(ut.hist[1].a.children) = 2
  /\ Len(ut.out) = 1

\* C25: fetchChannelVideos throws 'Channel not found' both when the
\* channels request succeeds with no item and when it is answered 404.
C25_SameMessageForMissingChannel ==
  ( /\ ut.f = "fetchChannelVideos"
    /\ ut.st = "returned"
    /\ ut.req = "channels"
    /\ ut.a.kind \in {"empty", "404"} )
    => /\ ut.out.at = "threw"
       /\ ut.out.err = "Channel not found"

\* C26: however the bytes of the stream are cut into chunks, the page
\* handles the frames the route enqueued, each once and in the order of
\* emission: after every read the handled frames are the frames whose line
\* has been read to its end, the buffer holds what was read of the line
\* that has not ended, and when the stream has ended every frame has been
\* handled and the buffer is empty.
LineEndsRead ==
  { i \in 2..rdr.pos :
      Text(log)[i].c = "\n" /\ Text(log)[i - 1].c = "json" }

LastLineFeedRead ==
  LET nl == { i \in 1..rdr.pos : Text(log)[i].c = "\n" }
  IN IF nl = {} THEN 0 ELSE CHOOSE i \in nl : \A j \in nl : j <= i

C26_ChunkingPreservesFrames ==
  /\ rdr.pos <= Len(Text(log))
  /\ rdr.handled = SubSeq(F, 1, Cardinality(LineEndsRead))
  /\ cl.rx = Len(rdr.handled)
  /\ rdr.buffer = SubSeq(Text(log), LastLineFeedRead + 1, rdr.pos)
  /\ cl.phase = "returned" => rdr.handled = F /\ rdr.buffer = <<>>

C26_Witness ==
  /\ cl.phase = "returned"
  /\ rdr.joined
  /\ Len(rdr.handled) = 3
  /\ rdr.handled[2].type = "progress"
  /\ rdr.handled[3].type = "complete"

\* C27: the steps of the progress frames of a run, in the order of emission,
\* are the first steps of fetching_videos, videos_fetched, analyzing_topics,
\* topics_analyzed, fetching_news, searching_reddit, news_fetched,
\* reddit_searched, generating_ideas, ideas_generated (the step table of the
\* page after 'starting'): no step comes twice and fetching_news comes
\* before searching_reddit.
ProgressSteps ==
  LET pf == SelectSeq(F, LAMBDA f : f.type = "progress")
  IN [i \in 1..Len(pf) |-> pf[i].data.step]

EmissionOrder ==
  << "fetching_videos", "videos_fetched", "analyzing_topics",
     "topics_analyzed", "fetching_news", "searching_reddit", "news_fetched",
     "reddit_searched", "generating_ideas", "ideas_generated" >>

C27_StepsArePrefix ==
  /\ EmissionOrder = Tail(stepOrder)
  /\ Len(ProgressSteps) <= Len(EmissionOrder)
  /\ ProgressSteps = SubSeq(EmissionOrder, 1, Len(ProgressSteps))
  /\ \A s \in StepAt("searching_reddit") :
       \E n \in StepAt("fetching_news") : n < s

C27_Witness ==
  /\ pc = "done"
  /\ ProgressSteps = EmissionOrder
  /\ \E i \in 1..Len(F) : F[i].type = "complete"

\* C28: the route never emits a progress frame with the step 'starting', so
\* from submit on the first entry of the progress list of the page is the
\* 'starting' entry with completed false, also after the complete frame has
\* been handled, and every other entry of the list is completed.
C28_StartingNeverCompleted ==
  /\ StepAt("starting") = {}
  /\ cl.phase # "idle"
       => /\ Len(cl.progress) >= 1
          /\ cl.progress[1].step = "starting"
          /\ ~cl.progress[1].completed
          /\ \A i \in 2..Len(cl.progress) :
               /\ cl.progress[i].step # "starting"
               /\ cl.progress[i].completed

C28_Witness ==
  /\ cl.result # <<>>
  /\ ~cl.loading
  /\ Len(cl.progress) = 11
  /\ cl.progress[1].step = "starting"
  /\ ~cl.progress[1].completed
  /\ cl.progress[11].completed

====
